---- MODULE Spec2Model ----
(***************************************************************************)
(* Model of src/update_data.py (GapDataUpdater): the per-event reduction   *)
(* of minute bars to a percentage-from-open curve, the qualification of    *)
(* gap candidates for one date, and the aggregation of event curves on the *)
(* canonical 78-point grid.                                                *)
(*                                                                         *)
(* Numbers.  Prices are integers in cents.  Every float the program        *)
(* computes (percentages, progress, means) is modelled as an exact         *)
(* rational <<n, d>> with d > 0 in lowest terms, so comparisons against    *)
(* the thresholds 1.0, 3, 5, 50 are exact.  Bar timestamps are minutes     *)
(* since midnight, US/Eastern wall clock, i.e. the value of df['t'] after  *)
(* the conversion of lines 105-109.                                        *)
(***************************************************************************)
EXTENDS Integers, Sequences, FiniteSets, TLC

VARIABLES
    pc,                 \* position of the running routine
    intraday_data,      \* minute bars returned by fetch_detailed_intraday_data
    prev_close,         \* prev_close argument of process_gapper_intraday
    gapper_data,        \* result of process_gapper_intraday
    day,                \* daily_update: index of the trading day being processed
    current_data,       \* fetch_candidates_for_date: the date's grouped results
    prev_closes,        \* fetch_candidates_for_date: ticker -> previous close
    initial_candidates, \* fetch_candidates_for_date: candidates of the first screen
    idx,                \* fetch_candidates_for_date: next candidate to process
    qualified_gappers,  \* fetch_candidates_for_date: events of the date
    all_gappers,        \* daily_update: events of all dates so far
    gappers,            \* calculate_period_average: the events of one period
    period_avg,         \* calculate_period_average: its result
    now,                \* datetime.now() of the run
    monthly_averages,   \* calculate_all_period_averages: month key -> aggregate
    weekly_averages,    \* calculate_all_period_averages: week key -> aggregate
    daily_averages,     \* calculate_all_period_averages: date -> aggregate
    date,               \* get_previous_trading_day: its date argument
    previous_day,       \* get_previous_trading_day: the day queried next / returned
    attempts,           \* get_previous_trading_day: loop iterations begun
    responses           \* the provider's answers to the queries so far

normVars == <<intraday_data, prev_close, gapper_data>>
dateVars == <<day, current_data, prev_closes, initial_candidates, idx,
              qualified_gappers, all_gappers>>
aggVars == <<gappers, period_avg>>
periodVars == <<now, monthly_averages, weekly_averages, daily_averages>>
prevVars == <<date, previous_day, attempts, responses>>
vars == <<pc, normVars, dateVars, aggVars, periodVars, prevVars>>

(***************************************************************************)
(* Bounds of the model.                                                    *)
(***************************************************************************)
MaxBars == 4
MaxStocks == 2
MaxGappers == 3

(***************************************************************************)
(* Exact rational arithmetic standing for Python/numpy float arithmetic.   *)
(***************************************************************************)
RECURSIVE GCD(_, _)
GCD(a, b) == IF b = 0 THEN a ELSE GCD(b, a % b)

IAbs(x) == IF x < 0 THEN -x ELSE x

Frac(n, d) ==
    LET s == IF d < 0 THEN -1 ELSE 1
        g == GCD(IAbs(n), IAbs(d))
    IN  <<(s * n) \div g, (s * d) \div g>>

R(n) == <<n, 1>>

RAdd(a, b) ==
    LET g == GCD(a[2], b[2])
    IN  Frac(a[1] * (b[2] \div g) + b[1] * (a[2] \div g), (a[2] \div g) * b[2])
RSub(a, b) == RAdd(a, <<-b[1], b[2]>>)
RMul(a, b) == Frac(a[1] * b[1], a[2] * b[2])
RDiv(a, b) == Frac(a[1] * b[2], a[2] * b[1])
RLt(a, b) == a[1] * b[2] < b[1] * a[2]
RLe(a, b) == a[1] * b[2] <= b[1] * a[2]
RAbs(a) == <<IAbs(a[1]), a[2]>>
RMax(a, b) == IF RLt(a, b) THEN b ELSE a
RMin(a, b) == IF RLt(b, a) THEN b ELSE a

RECURSIVE RMaxSeq(_)
RMaxSeq(s) == IF Len(s) = 1 THEN s[1] ELSE RMax(s[1], RMaxSeq(Tail(s)))

RECURSIVE RMinSeq(_)
RMinSeq(s) == IF Len(s) = 1 THEN s[1] ELSE RMin(s[1], RMinSeq(Tail(s)))

RECURSIVE RSumSeq(_)
RSumSeq(s) == IF s = <<>> THEN <<0, 1>> ELSE RAdd(s[1], RSumSeq(Tail(s)))

RECURSIVE SumSeq(_)
SumSeq(s) == IF s = <<>> THEN 0 ELSE s[1] + SumSeq(Tail(s))

SetMax(S) == CHOOSE x \in S : \A y \in S : y <= x
SetMin(S) == CHOOSE x \in S : \A y \in S : x <= y

RECURSIVE SortedSeq(_)
SortedSeq(S) == IF S = {} THEN <<>> ELSE <<SetMin(S)>> \o SortedSeq(S \ {SetMin(S)})

None == [none |-> TRUE]

(***************************************************************************)
(* Program constants.                                                      *)
(***************************************************************************)
MarketOpenMin == 570          \* time(9, 30)
MarketCloseMin == 960         \* time(16, 0)
MinPreMarketVolume == 1000000
MinGapPct == 50
ResampleMin == 5              \* resample('5min')
MinOpenCents == 30            \* opening >= 0.30

(***************************************************************************)
(* process_gapper_intraday, lines 94-273.                                  *)
(***************************************************************************)
\* lines 112-113: bars before 09:30 and their summed volume
pre_market(df) == SelectSeq(df, LAMBDA b : b.t < MarketOpenMin)

pre_market_volume_of(df) == SumSeq([i \in 1..Len(pre_market(df)) |-> pre_market(df)[i].v])

\* the session filter without its upper bound
market_hours_no_close(df) == SelectSeq(df, LAMBDA b : b.t >= MarketOpenMin)

\* lines 116-119: bars with 09:30 <= t <= 16:00
market_hours(df) ==
    SelectSeq(df, LAMBDA b : b.t >= MarketOpenMin /\ b.t <= MarketCloseMin)

\* resample keyed by the bar's own minute instead of the 5-minute bucket start
resample_by_minute(mh) ==
    [k \in 1..Len(mh) |->
        [t |-> mh[k].t, o |-> mh[k].o, h |-> mh[k].h, l |-> mh[k].l,
         c |-> mh[k].c, v |-> mh[k].v]]

\* lines 150-156: resample('5min') with o first, h max, l min, c last, v sum;
\* dropna() leaves only the buckets that hold a bar
resample(mh) ==
    LET start(b) == ResampleMin * (b.t \div ResampleMin)
        starts == SortedSeq({start(mh[i]) : i \in 1..Len(mh)})
        rows(s) == SelectSeq(mh, LAMBDA b : start(b) = s)
        bucket(s) ==
            LET r == rows(s)
            IN  [t |-> s,
                 o |-> r[1].o,
                 h |-> SetMax({r[i].h : i \in 1..Len(r)}),
                 l |-> SetMin({r[i].l : i \in 1..Len(r)}),
                 c |-> r[Len(r)].c,
                 v |-> SumSeq([i \in 1..Len(r) |-> r[i].v])]
    IN  [k \in 1..Len(starts) |-> bucket(starts[k])]

\* percent change of price p from day_open: ((p - day_open) / day_open) * 100
pct_from_open(p, day_open) == Frac((p - day_open) * 100, day_open)

\* lines 137-141 and 177-178: seconds from 09:30 over the session's seconds,
\* clamped to [0, 1]; t is in whole minutes
progress_of(t) ==
    RMax(R(0), RMin(R(1),
        Frac((t - MarketOpenMin) * 60, (MarketCloseMin - MarketOpenMin) * 60)))

\* select_price_pct with the day-low test ahead of the day-high test
select_price_pct_low_first(interval_high_pct, interval_low_pct, interval_close_pct, daily_high_pct, daily_low_pct) ==
    IF RLt(RAbs(RSub(interval_low_pct, daily_low_pct)), R(1)) THEN interval_low_pct
    ELSE IF RLt(RAbs(RSub(interval_high_pct, daily_high_pct)), R(1)) THEN interval_high_pct
    ELSE IF /\ RLt(RAbs(interval_low_pct), RAbs(interval_high_pct))
            /\ RLt(R(3), RAbs(interval_high_pct))
         THEN interval_high_pct
    ELSE IF RLt(R(3), RAbs(interval_low_pct)) THEN interval_low_pct
    ELSE IF RLt(R(5), RAbs(RSub(interval_high_pct, interval_low_pct)))
         THEN IF RLt(RAbs(interval_low_pct), RAbs(interval_high_pct))
              THEN interval_high_pct ELSE interval_low_pct
    ELSE RAdd(RMul(interval_close_pct, Frac(7, 10)),
              RMul(RDiv(RAdd(interval_high_pct, interval_low_pct), R(2)), Frac(3, 10)))

\* select_price_pct with the weights of close and midpoint exchanged
select_price_pct_weights_swapped(interval_high_pct, interval_low_pct, interval_close_pct, daily_high_pct, daily_low_pct) ==
    IF RLt(RAbs(RSub(interval_high_pct, daily_high_pct)), R(1)) THEN interval_high_pct
    ELSE IF RLt(RAbs(RSub(interval_low_pct, daily_low_pct)), R(1)) THEN interval_low_pct
    ELSE IF /\ RLt(RAbs(interval_low_pct), RAbs(interval_high_pct))
            /\ RLt(R(3), RAbs(interval_high_pct))
         THEN interval_high_pct
    ELSE IF RLt(R(3), RAbs(interval_low_pct)) THEN interval_low_pct
    ELSE IF RLt(R(5), RAbs(RSub(interval_high_pct, interval_low_pct)))
         THEN IF RLt(RAbs(interval_low_pct), RAbs(interval_high_pct))
              THEN interval_high_pct ELSE interval_low_pct
    ELSE RAdd(RMul(interval_close_pct, Frac(3, 10)),
              RMul(RDiv(RAdd(interval_high_pct, interval_low_pct), R(2)), Frac(7, 10)))

\* lines 191-217: the representative price of one 5-minute interval
select_price_pct(interval_high_pct, interval_low_pct, interval_close_pct, daily_high_pct, daily_low_pct) ==
    LET interval_midpoint_pct == RDiv(RAdd(interval_high_pct, interval_low_pct), R(2))
        contains_daily_high ==
            RLt(RAbs(RSub(interval_high_pct, daily_high_pct)), R(1))
        contains_daily_low ==
            RLt(RAbs(RSub(interval_low_pct, daily_low_pct)), R(1))
    IN  IF contains_daily_high THEN interval_high_pct
        ELSE IF contains_daily_low THEN interval_low_pct
        ELSE IF /\ RLt(RAbs(interval_low_pct), RAbs(interval_high_pct))
                /\ RLt(R(3), RAbs(interval_high_pct))
             THEN interval_high_pct
        ELSE IF RLt(R(3), RAbs(interval_low_pct)) THEN interval_low_pct
        ELSE IF RLt(R(5), RAbs(RSub(interval_high_pct, interval_low_pct)))
             THEN IF RLt(RAbs(interval_low_pct), RAbs(interval_high_pct))
                  THEN interval_high_pct ELSE interval_low_pct
        ELSE RAdd(RMul(interval_close_pct, Frac(7, 10)),
                  RMul(interval_midpoint_pct, Frac(3, 10)))

\* the last row whose high is the day's high, in place of the first
hod_row_last(mh, day_high) == mh[SetMax({i \in 1..Len(mh) : mh[i].h = day_high})]

\* line 131: market_hours[market_hours['h'] == day_high].iloc[0]
hod_row(mh, day_high) == mh[SetMin({i \in 1..Len(mh) : mh[i].h = day_high})]

\* line 145: actual_gap < 50
gap_below_minimum(actual_gap) == RLt(actual_gap, R(MinGapPct))

process_gapper_intraday(df, ticker, date_str, prev_close_arg) ==
    IF df = <<>> THEN None                                       \* lines 101-102
    ELSE
    LET mh == market_hours(df)
        pre_market_volume == pre_market_volume_of(df)
    IN
    IF mh = <<>> \/ pre_market_volume < MinPreMarketVolume THEN None  \* 121-122
    ELSE
    LET day_open == mh[1].o
        day_high == SetMax({mh[i].h : i \in 1..Len(mh)})
        day_low == SetMin({mh[i].l : i \in 1..Len(mh)})
        day_close == mh[Len(mh)].c
        hod_time == hod_row(mh, day_high).t                       \* line 132
        hod_time_percentage == progress_of(hod_time)
        actual_gap == Frac((day_open - prev_close_arg) * 100, prev_close_arg)
    IN
    IF gap_below_minimum(actual_gap) THEN None                   \* lines 145-146
    ELSE
    LET resampled == resample(mh)
        daily_high_pct == pct_from_open(day_high, day_open)
        daily_low_pct == pct_from_open(day_low, day_open)
        n == Len(resampled)
        total_volume == SumSeq([i \in 1..Len(mh) |-> mh[i].v])
    IN
    IF n = 0 THEN None                                           \* lines 158-159
    ELSE
    [ticker |-> ticker,
     date |-> date_str,
     gap_percentage |-> actual_gap,
     previous_close |-> prev_close_arg,
     open |-> day_open,
     high |-> day_high,
     low |-> day_low,
     close |-> day_close,
     open_to_close_change |-> pct_from_open(day_close, day_open),
     high_of_day_pct |-> daily_high_pct,
     low_of_day_pct |-> daily_low_pct,
     hod_time_percentage |-> hod_time_percentage,
     hod_time |-> hod_time,
     total_volume |-> total_volume,
     dollar_volume |-> (total_volume * day_open) \div 100,
     pre_market_volume |-> pre_market_volume,
     times_normalized |-> [k \in 1..n |-> progress_of(resampled[k].t)],
     prices_normalized |->
        [k \in 1..n |->
            select_price_pct(pct_from_open(resampled[k].h, day_open),
                             pct_from_open(resampled[k].l, day_open),
                             pct_from_open(resampled[k].c, day_open),
                             daily_high_pct, daily_low_pct)],
     highs_normalized |-> [k \in 1..n |-> pct_from_open(resampled[k].h, day_open)],
     lows_normalized |-> [k \in 1..n |-> pct_from_open(resampled[k].l, day_open)]]

(***************************************************************************)
(* The normaliser on its own: one provider response, one call.             *)
(***************************************************************************)
\* minute-of-day of the bars a response may hold: 09:20, 09:25 (pre-market),
\* 09:30, 09:33 (same 5-minute bucket), 09:35, 16:00, 16:05 (after hours)
BarTimes == {560, 565, 570, 573, 575, 960, 965}

\* bar shapes (cents), low <= open, close <= high
BarBodies ==
    { [o |-> 200, h |-> 208, l |-> 192, c |-> 204, v |-> 500000],
      [o |-> 200, h |-> 201, l |-> 199, c |-> 201, v |-> 400000],
      [o |-> 201, h |-> 207, l |-> 201, c |-> 206, v |-> 600000],
      [o |-> 199, h |-> 199, l |-> 193, c |-> 194, v |-> 500000],
      [o |-> 200, h |-> 206, l |-> 195, c |-> 200, v |-> 300000],
      [o |-> 200, h |-> 220, l |-> 180, c |-> 210, v |-> 1000000],
      [o |-> 200, h |-> 206, l |-> 194, c |-> 200, v |-> 200000] }

PrevCloses == {100, 134}

Bar(t, b) == [t |-> t, o |-> b.o, h |-> b.h, l |-> b.l, c |-> b.c, v |-> b.v]

\* the sets of minutes a response may hold: up to MaxBars bars, distinct minutes
ResponseTimes == { S \in SUBSET BarTimes : Cardinality(S) \in 1..MaxBars }

\* a response: the bars at the minutes of T in ascending order (sort=asc)
IntradayResponse(T, f) == [k \in 1..Cardinality(T) |-> Bar(SortedSeq(T)[k], f[k])]

InitNorm ==
    /\ pc = "fetch"
    /\ intraday_data = <<>>
    /\ prev_close = 0
    /\ gapper_data = None
    /\ day = 1
    /\ current_data = <<>>
    /\ prev_closes = <<>>
    /\ initial_candidates = <<>>
    /\ idx = 1
    /\ qualified_gappers = <<>>
    /\ all_gappers = <<>>
    /\ gappers = <<>>
    /\ period_avg = None
    /\ now = <<2024, 3, 4>>
    /\ monthly_averages = <<>>
    /\ weekly_averages = <<>>
    /\ daily_averages = <<>>
    /\ date = <<2024, 3, 4>>
    /\ previous_day = None
    /\ attempts = 0
    /\ responses = <<>>

\* lines 77-92 as seen by the caller: the provider's bars for the ticker
FetchDetailedIntradayData ==
    /\ pc = "fetch"
    /\ \E T \in ResponseTimes, p \in PrevCloses :
         \E f \in [1..Cardinality(T) -> BarBodies] :
            /\ intraday_data' = IntradayResponse(T, f)
            /\ prev_close' = p
    /\ pc' = "process"
    /\ UNCHANGED <<gapper_data, dateVars, aggVars, periodVars, prevVars>>

ProcessGapperIntraday ==
    /\ pc = "process"
    /\ gapper_data' = process_gapper_intraday(intraday_data, <<"A", "A">>, "2024-03-01", prev_close)
    /\ pc' = "done"
    /\ UNCHANGED <<intraday_data, prev_close, dateVars, aggVars, periodVars, prevVars>>

NextNorm == FetchDetailedIntradayData \/ ProcessGapperIntraday

SpecNorm == InitNorm /\ [][NextNorm]_vars

(***************************************************************************)
(* fetch_candidates_for_date, lines 275-364, driven by the loop of         *)
(* daily_update, lines 667-675.  A ticker is the sequence of its           *)
(* characters.                                                             *)
(***************************************************************************)
EndsWith(ticker, suffix) ==
    /\ Len(ticker) >= Len(suffix)
    /\ SubSeq(ticker, Len(ticker) - Len(suffix) + 1, Len(ticker)) = suffix

\* lines 35-48
filter_ticker_symbols(ticker) ==
    LET invalid_suffixes == { <<"W", "S">>, <<"R", "T">>, <<"W", "S", "A">> }
        test_symbols == { <<"Z", "V", "Z", "Z", "T">>, <<"Z", "W", "Z", "Z", "T">>,
                          <<"Z", "B", "Z", "Z", "T">> }
    IN  IF Len(ticker) >= 5 THEN FALSE
        ELSE IF \E suffix \in invalid_suffixes : EndsWith(ticker, suffix) THEN FALSE
        ELSE IF ticker \in test_symbols THEN FALSE
        ELSE TRUE

\* line 317: ticker in prev_closes
HasPrevClose(closes, ticker) == \E i \in 1..Len(closes) : closes[i].T = ticker

\* line 318: prev_closes[ticker]
PrevCloseOf(closes, ticker) ==
    closes[CHOOSE i \in 1..Len(closes) : closes[i].T = ticker].c

\* lines 314-317: the stock reaches the division of line 319
ReachesDivision(stock, closes) ==
    filter_ticker_symbols(stock.T) /\ HasPrevClose(closes, stock.T)

\* line 319 raises ZeroDivisionError for this stock
DivisionRaises(stock, closes) ==
    ReachesDivision(stock, closes) /\ PrevCloseOf(closes, stock.T) = 0

\* lines 319-321: initial_gap >= 50 and opening >= 0.30
passes_initial_screen(opening, stock_prev_close) ==
    /\ RLe(R(MinGapPct), Frac((opening - stock_prev_close) * 100, stock_prev_close))
    /\ opening >= MinOpenCents

\* lines 306-327 when no division raises: the candidates in the order of results
RECURSIVE scan_candidates(_, _)
scan_candidates(results, closes) ==
    IF results = <<>> THEN <<>>
    ELSE LET stock == Head(results)
             rest == scan_candidates(Tail(results), closes)
         IN  IF /\ ReachesDivision(stock, closes)
                /\ passes_initial_screen(stock.o, PrevCloseOf(closes, stock.T))
             THEN <<[ticker |-> stock.T,
                     previous_close |-> PrevCloseOf(closes, stock.T),
                     initial_gap |-> Frac((stock.o - PrevCloseOf(closes, stock.T)) * 100,
                                          PrevCloseOf(closes, stock.T)),
                     opening |-> stock.o]>> \o rest
             ELSE rest

\* the trading days of the run, oldest first (get_trading_days, lines 609-619)
TradingDays == <<"2024-03-01", "2024-03-04">>

Tickers == { <<"A", "A">>, <<"B", "B">>, <<"X", "W", "S">> }

\* grouped-daily quotes (cents): opening and previous close; prev = -1 stands
\* for a ticker the previous day's results do not hold
Quotes ==
    { [o |-> 201, prev |-> 134],      \* gap exactly 50%
      [o |-> 200, prev |-> 134],      \* gap 49.25%
      [o |-> 30, prev |-> 12],        \* opening exactly at the price floor
      [o |-> 2020, prev |-> 1000],    \* ratio 2.02
      [o |-> 200, prev |-> 0],        \* zero previous close
      [o |-> 0, prev |-> 134],        \* zero opening
      [o |-> 200, prev |-> -1] }      \* no previous close

\* the provider's minute bars for a ticker whose first session bar opens at x:
\* one pre-market bar of volume vol, session bars at 09:30 and 09:35
FeedBars(x, vol) ==
    << [t |-> 565, o |-> x, h |-> x, l |-> x, c |-> x, v |-> vol],
       [t |-> 570, o |-> x, h |-> x + (x \div 10), l |-> x, c |-> x + (x \div 10),
        v |-> 100000],
       [t |-> 575, o |-> x, h |-> x, l |-> x - (x \div 10), c |-> x - (x \div 10),
        v |-> 100000] >>

\* the responses for a candidate whose grouped opening is o: no data, or bars
\* whose first session open is o or one cent below, with enough or too little
\* pre-market volume
Feeds(o) == { <<>>, FeedBars(o, 1000000), FeedBars(o - 1, 1000000), FeedBars(o, 500000) }

\* the grouped results of a date: up to MaxStocks stocks with distinct tickers
StockLists ==
    { sl \in UNION { [1..n -> Tickers] : n \in 0..MaxStocks } :
        \A i, j \in 1..Len(sl) : i # j => sl[i] # sl[j] }

Init ==
    /\ pc = "date"
    /\ intraday_data = <<>>
    /\ prev_close = 0
    /\ gapper_data = None
    /\ day = 1
    /\ current_data = <<>>
    /\ prev_closes = <<>>
    /\ initial_candidates = <<>>
    /\ idx = 1
    /\ qualified_gappers = <<>>
    /\ all_gappers = <<>>
    /\ gappers = <<>>
    /\ period_avg = None
    /\ now = <<2024, 3, 4>>
    /\ monthly_averages = <<>>
    /\ weekly_averages = <<>>
    /\ daily_averages = <<>>
    /\ date = <<2024, 3, 4>>
    /\ previous_day = None
    /\ attempts = 0
    /\ responses = <<>>

\* lines 277-304: previous trading day found, both grouped requests answered
FetchGrouped ==
    /\ pc = "date"
    /\ day <= Len(TradingDays)
    /\ \E sl \in StockLists :
         \E q \in [1..Len(sl) -> Quotes] :
            /\ current_data' = [i \in 1..Len(sl) |-> [T |-> sl[i], o |-> q[i].o]]
            /\ prev_closes' =
                 LET have == SelectSeq([i \in 1..Len(sl) |-> [T |-> sl[i], c |-> q[i].prev]],
                                       LAMBDA r : r.c >= 0)
                 IN  have
    /\ initial_candidates' = <<>>
    /\ qualified_gappers' = <<>>
    /\ idx' = 1
    /\ pc' = "scan"
    /\ UNCHANGED <<normVars, day, all_gappers, aggVars, periodVars, prevVars>>

\* lines 285-288 (no previous trading day) and lines 294-304 with 360-364 (a
\* grouped request raises): the date yields []
FetchFails ==
    /\ pc = "date"
    /\ day <= Len(TradingDays)
    /\ current_data' = <<>>
    /\ prev_closes' = <<>>
    /\ initial_candidates' = <<>>
    /\ qualified_gappers' = <<>>
    /\ idx' = 1
    /\ pc' = "return"
    /\ UNCHANGED <<normVars, day, all_gappers, aggVars, periodVars, prevVars>>

\* lines 306-329: the first screen over the date's results; a zero previous
\* close of a stock that reaches line 319 raises ZeroDivisionError, which
\* lines 360-364 turn into the result []
ScanResults ==
    /\ pc = "scan"
    /\ IF \E i \in 1..Len(current_data) : DivisionRaises(current_data[i], prev_closes)
       THEN /\ initial_candidates' = <<>>
            /\ pc' = "return"
       ELSE /\ initial_candidates' = scan_candidates(current_data, prev_closes)
            /\ pc' = "candidates"
    /\ idx' = 1
    /\ qualified_gappers' = <<>>
    /\ UNCHANGED <<normVars, day, current_data, prev_closes, all_gappers, aggVars, periodVars, prevVars>>

\* lines 333-355: one candidate: its minute bars, process_gapper_intraday, and
\* the append of a result
ProcessCandidate ==
    /\ pc = "candidates"
    /\ idx <= Len(initial_candidates)
    /\ LET candidate == initial_candidates[idx]
       IN  \E feed \in Feeds(candidate.opening) :
            LET result == IF feed = <<>> THEN None
                          ELSE process_gapper_intraday(feed, candidate.ticker,
                                   TradingDays[day], candidate.previous_close)
            IN  /\ intraday_data' = feed
                /\ prev_close' = candidate.previous_close
                /\ gapper_data' = result
                /\ qualified_gappers' =
                     IF result # None THEN Append(qualified_gappers, result)
                     ELSE qualified_gappers
    /\ idx' = idx + 1
    /\ UNCHANGED <<pc, day, current_data, prev_closes, initial_candidates, all_gappers, aggVars, periodVars, prevVars>>

\* lines 357-358: the loop over the candidates is over
CandidatesDone ==
    /\ pc = "candidates"
    /\ idx > Len(initial_candidates)
    /\ pc' = "return"
    /\ UNCHANGED <<normVars, day, current_data, prev_closes, initial_candidates, idx,
                   qualified_gappers, all_gappers, aggVars, periodVars, prevVars>>

\* daily_update, lines 673-675: the date's events join all_gappers; the locals of
\* the call that returned are gone
NextTradingDay ==
    /\ pc = "return"
    /\ all_gappers' = all_gappers \o qualified_gappers
    /\ day' = day + 1
    /\ pc' = "date"
    /\ intraday_data' = <<>>
    /\ prev_close' = 0
    /\ gapper_data' = None
    /\ current_data' = <<>>
    /\ prev_closes' = <<>>
    /\ initial_candidates' = <<>>
    /\ idx' = 1
    /\ qualified_gappers' = <<>>
    /\ UNCHANGED <<aggVars, periodVars, prevVars>>

Next ==
    \/ FetchGrouped
    \/ FetchFails
    \/ ScanResults
    \/ ProcessCandidate
    \/ CandidatesDone
    \/ NextTradingDay

Spec == Init /\ [][Next]_vars

(***************************************************************************)
(* calculate_period_average, lines 366-472.                                *)
(***************************************************************************)
GridSize == 78                \* np.linspace(0, 1, 78)

\* line 376: the i-th of the 78 evenly spaced points of [0, 1]
time_point(i) == Frac(i - 1, GridSize - 1)

\* np.interp returning the value of the knot at or before x, without the slope
np_interp_step(x, xp, fp) ==
    IF RLe(x, xp[1]) THEN fp[1]
    ELSE fp[SetMax({k \in 1..Len(xp) : RLe(xp[k], x)})]

\* np.interp adding the slope term to the value of the knot after x
np_interp_next_base(x, xp, fp) ==
    IF RLe(x, xp[1]) THEN fp[1]
    ELSE IF RLe(xp[Len(xp)], x) THEN fp[Len(fp)]
    ELSE LET j == SetMax({k \in 1..Len(xp) : RLe(xp[k], x)})
             slope == RDiv(RSub(fp[j + 1], fp[j]), RSub(xp[j + 1], xp[j]))
         IN  RAdd(RMul(slope, RSub(x, xp[j])), fp[j + 1])

\* np.interp(x, xp, fp) for increasing xp: the end values outside [xp[1], xp[n]],
\* slope * (x - xp[j]) + fp[j] on the segment that holds x
np_interp(x, xp, fp) ==
    IF RLe(x, xp[1]) THEN fp[1]
    ELSE IF RLe(xp[Len(xp)], x) THEN fp[Len(fp)]
    ELSE LET j == SetMax({k \in 1..Len(xp) : RLe(xp[k], x)})
             slope == RDiv(RSub(fp[j + 1], fp[j]), RSub(xp[j + 1], xp[j]))
         IN  RAdd(RMul(slope, RSub(x, xp[j])), fp[j])

\* round(value, 2): the nearest multiple of 0.01, a tie going to the even one
round2(a) ==
    LET whole == a[1] \div a[2]
        part == ((a[1] % a[2]) * 100) \div a[2]
        rest == ((a[1] % a[2]) * 100) % a[2]
        down == whole * 100 + part
        up == IF 2 * rest > a[2] THEN 1
              ELSE IF 2 * rest < a[2] THEN 0
              ELSE down % 2
    IN  Frac(down + up, 100)

\* np.mean of a non-empty list of numbers
np_mean(values) == RDiv(RSumSeq(values), R(Len(values)))

\* the curve test with a single point accepted as a curve
has_curve_single_point(gapper) == Len(gapper.times_normalized) >= 1

\* line 391: len(gapper['times_normalized']) > 1
has_curve(gapper) == Len(gapper.times_normalized) > 1

MarketMinutes == 390          \* market_minutes = 6.5 * 60

\* lines 435-441 and 446-452: the clock time <<hour, minute>> that is
\* fraction * market_minutes after 09:30, the minutes cut to a whole number;
\* the formatted text is "HH:MM" of the pair
clock_label(fraction) ==
    LET minutes_from_930 == RMul(fraction, R(MarketMinutes))
        whole == minutes_from_930[1] \div minutes_from_930[2]
        hour == 9 + (whole \div 60)
        minute == 30 + (whole % 60)
    IN  IF minute >= 60 THEN <<hour + 1, minute - 60>> ELSE <<hour, minute>>

calculate_period_average(gapper_list, period_name) ==
    IF gapper_list = <<>> THEN None                              \* lines 371-372
    ELSE
    LET with_curves == SelectSeq(gapper_list, has_curve)
        m == Len(with_curves)
        n == Len(gapper_list)
        \* lines 393-399 and 416-418: interpolate, then mean over the curves
        avg_at(field, i) ==
            np_mean([k \in 1..m |->
                np_interp(time_point(i), with_curves[k].times_normalized,
                          with_curves[k][field])])
    IN
    IF m = 0 THEN None                                           \* lines 412-413
    ELSE
    [period_name |-> period_name,
     gapper_count |-> n,
     avg_gap_percentage |->
        round2(RDiv(RSumSeq([k \in 1..n |-> gapper_list[k].gap_percentage]), R(n))),
     avg_open_to_close |->
        round2(RDiv(RSumSeq([k \in 1..n |-> gapper_list[k].open_to_close_change]), R(n))),
     total_volume |-> SumSeq([k \in 1..n |-> gapper_list[k].total_volume]),
     total_dollar_volume |-> SumSeq([k \in 1..n |-> gapper_list[k].dollar_volume]),
     avg_high_of_day_pct |->
        round2(np_mean([k \in 1..n |-> gapper_list[k].high_of_day_pct])),
     avg_low_of_day_pct |->
        round2(np_mean([k \in 1..n |-> gapper_list[k].low_of_day_pct])),
     avg_hod_time |-> np_mean([k \in 1..m |-> with_curves[k].hod_time_percentage]),
     avg_hod_time_str |->
        clock_label(np_mean([k \in 1..m |-> with_curves[k].hod_time_percentage])),
     time_labels |-> [i \in 1..GridSize |-> clock_label(time_point(i))],
     avg_prices |-> [i \in 1..GridSize |-> round2(avg_at("prices_normalized", i))],
     avg_highs |-> [i \in 1..GridSize |-> round2(avg_at("highs_normalized", i))],
     avg_lows |-> [i \in 1..GridSize |-> round2(avg_at("lows_normalized", i))],
     open_line |-> [i \in 1..GridSize |-> R(0)]]

(***************************************************************************)
(* The aggregator on its own: the events of one period, one call.          *)
(***************************************************************************)
PreMarketBar == [t |-> 565, o |-> 200, h |-> 200, l |-> 200, c |-> 200, v |-> 1000000]

FlatBar(t) == [t |-> t, o |-> 200, h |-> 200, l |-> 200, c |-> 200, v |-> 100000]

\* the minute bars of the events a period may hold (cents, session open 2.00):
\* two with buckets at 09:30, 12:45 and 16:00, one with the single bucket
\* 09:30, one with buckets at 09:35 and 16:00
PeriodFeeds ==
    { [ticker |-> <<"U", "P">>,
       bars |-> << PreMarketBar, FlatBar(570),
                   [t |-> 765, o |-> 200, h |-> 220, l |-> 200, c |-> 220, v |-> 300000],
                   [t |-> 960, o |-> 200, h |-> 200, l |-> 190, c |-> 190, v |-> 200000] >>],
      [ticker |-> <<"D", "N">>,
       bars |-> << PreMarketBar, FlatBar(570),
                   [t |-> 765, o |-> 200, h |-> 200, l |-> 180, c |-> 180, v |-> 300000],
                   [t |-> 960, o |-> 200, h |-> 210, l |-> 200, c |-> 210, v |-> 200000] >>],
      [ticker |-> <<"O", "N", "E">>,
       bars |-> << PreMarketBar,
                   [t |-> 570, o |-> 200, h |-> 208, l |-> 192, c |-> 204, v |-> 500000] >>],
      [ticker |-> <<"L", "A", "T", "E">>,
       bars |-> << PreMarketBar,
                   [t |-> 575, o |-> 200, h |-> 206, l |-> 199, c |-> 203, v |-> 400000],
                   [t |-> 960, o |-> 203, h |-> 203, l |-> 194, c |-> 195, v |-> 100000] >>] }

\* the events process_gapper_intraday returns for them (previous close 1.00)
PeriodEvents ==
    { process_gapper_intraday(f.bars, f.ticker, "2024-03-01", 100) : f \in PeriodFeeds }

InitAgg ==
    /\ pc = "group"
    /\ intraday_data = <<>>
    /\ prev_close = 0
    /\ gapper_data = None
    /\ day = 1
    /\ current_data = <<>>
    /\ prev_closes = <<>>
    /\ initial_candidates = <<>>
    /\ idx = 1
    /\ qualified_gappers = <<>>
    /\ all_gappers = <<>>
    /\ gappers = <<>>
    /\ period_avg = None
    /\ now = <<2024, 3, 4>>
    /\ monthly_averages = <<>>
    /\ weekly_averages = <<>>
    /\ daily_averages = <<>>
    /\ date = <<2024, 3, 4>>
    /\ previous_day = None
    /\ attempts = 0
    /\ responses = <<>>

\* the caller's argument: the events grouped under one period key
GroupPeriod ==
    /\ pc = "group"
    /\ \E n \in 0..MaxGappers : \E g \in [1..n -> PeriodEvents] : gappers' = g
    /\ pc' = "average"
    /\ UNCHANGED <<normVars, dateVars, periodVars, prevVars, period_avg>>

CalculatePeriodAverage ==
    /\ pc = "average"
    /\ period_avg' = calculate_period_average(gappers, "Mar 2024")
    /\ pc' = "averaged"
    /\ UNCHANGED <<normVars, dateVars, periodVars, prevVars, gappers>>

NextAgg == GroupPeriod \/ CalculatePeriodAverage

SpecAgg == InitAgg /\ [][NextAgg]_vars

(***************************************************************************)
(* Dates.  A datetime is <<year, month, day>> (the time of day plays no    *)
(* part in any key).  A date string 'YYYY-MM-DD' is the sequence of its    *)
(* eight digits, the two dashes left out.                                  *)
(***************************************************************************)
is_leap(year) == year % 4 = 0 /\ (year % 100 # 0 \/ year % 400 = 0)

days_in_month(year, month) ==
    IF month = 2 THEN (IF is_leap(year) THEN 29 ELSE 28)
    ELSE IF month \in {4, 6, 9, 11} THEN 30 ELSE 31

days_before_year(year) ==
    (year - 1) * 365 + (year - 1) \div 4 - (year - 1) \div 100 + (year - 1) \div 400

RECURSIVE days_before_month(_, _)
days_before_month(year, month) ==
    IF month = 1 THEN 0
    ELSE days_before_month(year, month - 1) + days_in_month(year, month - 1)

\* date.toordinal(): 0001-01-01 is day 1
ymd2ord(dt) == days_before_year(dt[1]) + days_before_month(dt[1], dt[2]) + dt[3]

\* date.fromordinal(n)
ord2ymd(n) ==
    LET year == CHOOSE y \in (n \div 366)..(n \div 365 + 1) :
                    days_before_year(y) < n /\ n <= days_before_year(y + 1)
        rest == n - days_before_year(year)
        month == CHOOSE m \in 1..12 :
                    /\ days_before_month(year, m) < rest
                    /\ rest <= days_before_month(year, m) + days_in_month(year, m)
    IN  <<year, month, rest - days_before_month(year, month)>>

\* date - timedelta(days=days)
minus_days(dt, days) == ord2ymd(ymd2ord(dt) - days)

\* date.weekday(): Monday is 0
weekday(dt) == (ymd2ord(dt) + 6) % 7

\* the ordinal of the Monday that starts ISO week 1 of the year
isoweek1monday(year) ==
    LET firstday == ymd2ord(<<year, 1, 1>>)
        firstweekday == (firstday + 6) % 7
        week1monday == firstday - firstweekday
    IN  IF firstweekday > 3 THEN week1monday + 7 ELSE week1monday

\* date.isocalendar(): <<ISO year, ISO week, ISO weekday>>
isocalendar(dt) ==
    LET year == dt[1]
        today == ymd2ord(dt)
        week == (today - isoweek1monday(year)) \div 7
        isoday == (today - isoweek1monday(year)) % 7
    IN  IF today < isoweek1monday(year)
        THEN <<year - 1, (today - isoweek1monday(year - 1)) \div 7 + 1, isoday + 1>>
        ELSE IF week >= 52 /\ today >= isoweek1monday(year + 1)
        THEN <<year + 1, 1, isoday + 1>>
        ELSE <<year, week + 1, isoday + 1>>

\* date.strftime('%Y-%m-%d'): four digits of the year, two of the month, two
\* of the day
strftime_ymd(dt) ==
    << (dt[1] \div 1000) % 10, (dt[1] \div 100) % 10, (dt[1] \div 10) % 10,
       dt[1] % 10, dt[2] \div 10, dt[2] % 10, dt[3] \div 10, dt[3] % 10 >>

\* datetime.strptime(text, '%Y-%m-%d')
strptime_ymd(text) ==
    << 1000 * text[1] + 100 * text[2] + 10 * text[3] + text[4],
       10 * text[5] + text[6], 10 * text[7] + text[8] >>

RECURSIVE str_lt(_, _)
\* a < b for two strings, character by character
str_lt(a, b) ==
    IF a = <<>> THEN b # <<>>
    ELSE IF b = <<>> THEN FALSE
    ELSE IF a[1] # b[1] THEN a[1] < b[1]
    ELSE str_lt(Tail(a), Tail(b))

(***************************************************************************)
(* calculate_all_period_averages, lines 474-557.  A key f"{year}-{month:02d}"*)
(* is the pair <<year, month>>, a key f"{year}-W{week:02d}" the pair       *)
(* <<year, week>>; a dict is a function on the keys it holds.              *)
(***************************************************************************)
WindowPeriods == 12           \* range(11, -1, -1)
DailyLimit == 12              \* [:12]

month_names == <<"Jan", "Feb", "Mar", "Apr", "May", "Jun",
                 "Jul", "Aug", "Sep", "Oct", "Nov", "Dec">>

day_names == <<"Mon", "Tue", "Wed", "Thu", "Fri", "Sat", "Sun">>

\* lines 482-486: the month key of an event
event_month_key(gapper) ==
    LET parsed == strptime_ymd(gapper.date) IN <<parsed[1], parsed[2]>>

\* the week key of an event from the calendar year and the ISO week
event_week_key_calendar_year(gapper) ==
    LET parsed == strptime_ymd(gapper.date) IN <<parsed[1], isocalendar(parsed)[2]>>

\* lines 482 and 489-490: the week key of an event
event_week_key(gapper) ==
    LET iso == isocalendar(strptime_ymd(gapper.date)) IN <<iso[1], iso[2]>>

\* lines 506-507: the first of the month, i * 30 days back, set to day 1
target_month(current_date, i) ==
    LET back == minus_days(<<current_date[1], current_date[2], 1>>, i * 30)
    IN  <<back[1], back[2], 1>>

\* lines 526-528: the ISO year and week of the day i weeks back
target_week(current_date, i) ==
    LET iso == isocalendar(minus_days(current_date, 7 * i)) IN <<iso[1], iso[2]>>

\* the daily keys cut to the first 12 in ascending order
latest_daily_keys_oldest(keys) ==
    { k \in keys : Cardinality({ j \in keys : str_lt(j, k) }) < DailyLimit }

\* line 543: sorted(keys, reverse=True)[:12]
latest_daily_keys(keys) ==
    { k \in keys : Cardinality({ j \in keys : str_lt(k, j) }) < DailyLimit }

\* lines 497-520
monthly_averages_of(gapper_list, current_date) ==
    LET monthly_data(key) == SelectSeq(gapper_list, LAMBDA g : event_month_key(g) = key)
        targets == { target_month(current_date, i) : i \in 0..(WindowPeriods - 1) }
        name(t) == <<month_names[t[2]], t[1]>>
        kept == { t \in targets :
                    /\ monthly_data(<<t[1], t[2]>>) # <<>>
                    /\ calculate_period_average(monthly_data(<<t[1], t[2]>>), name(t)) # None }
    IN  [ key \in { <<t[1], t[2]>> : t \in kept } |->
            calculate_period_average(monthly_data(key), <<month_names[key[2]], key[1]>>)
              @@ [month |-> month_names[key[2]], year |-> key[1], month_key |-> key] ]

\* lines 522-539
weekly_averages_of(gapper_list, current_date) ==
    LET weekly_data(key) == SelectSeq(gapper_list, LAMBDA g : event_week_key(g) = key)
        targets == { target_week(current_date, i) : i \in 0..(WindowPeriods - 1) }
        name(key) == <<"Week", key[2], key[1]>>
        kept == { key \in targets :
                    /\ weekly_data(key) # <<>>
                    /\ calculate_period_average(weekly_data(key), name(key)) # None }
    IN  [ key \in kept |->
            calculate_period_average(weekly_data(key), name(key))
              @@ [week |-> key[2], year |-> key[1], week_key |-> key] ]

\* lines 541-555
daily_averages_of(gapper_list) ==
    LET daily_data(key) == SelectSeq(gapper_list, LAMBDA g : g.date = key)
        sorted_daily_keys ==
            latest_daily_keys({ gapper_list[k].date : k \in 1..Len(gapper_list) })
        day_name(key) ==
            LET parsed == strptime_ymd(key)
            IN  <<day_names[weekday(parsed) + 1], parsed[2], parsed[3]>>
        kept == { key \in sorted_daily_keys :
                    calculate_period_average(daily_data(key), day_name(key)) # None }
    IN  [ key \in kept |->
            calculate_period_average(daily_data(key), day_name(key))
              @@ [date |-> key, day_name |-> day_name(key)] ]

(***************************************************************************)
(* daily_update, lines 664-680: the events of the trading days, then the   *)
(* period averages.  Two families of runs: events spread over the year     *)
(* before now (SpecPeriods), and events on consecutive recent days         *)
(* (SpecDaily).                                                            *)
(***************************************************************************)
MaxWindowEvents == 2
MaxEventDays == 13
MaxOddDays == 1

\* the run's datetime.now(): a Monday in March, the first Thursday of a year,
\* the last day of a July
Nows == { <<2025, 3, 3>>, <<2025, 1, 2>>, <<2024, 7, 31>> }

\* days before now of the trading days on which the provider may list gappers
\* (get_trading_days reaches at least 343 days back); on every other trading
\* day fetch_candidates_for_date returns [] and line 674 skips it
EventOffsets == {0, 3, 7, 31, 77, 84, 322, 343}

\* lines 609-619: those days in ascending order, weekdays only
get_trading_days(current_date) ==
    LET ords == { ymd2ord(current_date) - k : k \in EventOffsets }
    IN  SelectSeq([k \in 1..Cardinality(ords) |-> ord2ymd(SortedSeq(ords)[k])],
                  LAMBDA d : weekday(d) < 5)

\* the last MaxEventDays weekdays up to now, in ascending order
recent_trading_days(current_date) ==
    LET ords == { o \in (ymd2ord(current_date) - 2 * MaxEventDays)..ymd2ord(current_date) :
                     weekday(ord2ymd(o)) < 5 }
        all_days == SortedSeq(ords)
    IN  [k \in 1..MaxEventDays |-> ord2ymd(all_days[Len(all_days) - MaxEventDays + k])]

\* the minute bars of a gapper that trades in the buckets 09:30 and 09:35 (a
\* curve of two points), and of one with the single bucket 09:30
CurveFeed ==
    [ticker |-> <<"U", "P">>,
     bars |-> << PreMarketBar, FlatBar(570),
                 [t |-> 575, o |-> 200, h |-> 220, l |-> 200, c |-> 220, v |-> 300000] >>]

SinglePointFeed ==
    [ticker |-> <<"O", "N", "E">>,
     bars |-> << PreMarketBar,
                 [t |-> 570, o |-> 200, h |-> 208, l |-> 192, c |-> 204, v |-> 500000] >>]

event_of(feed, day_date) ==
    process_gapper_intraday(feed.bars, feed.ticker, strftime_ymd(day_date), 100)

\* what fetch_candidates_for_date may return for a date
DailyGappers(day_date) ==
    { <<>>, <<event_of(CurveFeed, day_date)>>, <<event_of(SinglePointFeed, day_date)>>,
      <<event_of(SinglePointFeed, day_date), event_of(CurveFeed, day_date)>> }

InitPeriods ==
    /\ pc = "days"
    /\ intraday_data = <<>>
    /\ prev_close = 0
    /\ gapper_data = None
    /\ day = 1
    /\ current_data = <<>>
    /\ prev_closes = <<>>
    /\ initial_candidates = <<>>
    /\ idx = 1
    /\ qualified_gappers = <<>>
    /\ all_gappers = <<>>
    /\ gappers = <<>>
    /\ period_avg = None
    /\ now \in Nows
    /\ monthly_averages = <<>>
    /\ weekly_averages = <<>>
    /\ daily_averages = <<>>
    /\ date = <<2024, 3, 4>>
    /\ previous_day = None
    /\ attempts = 0
    /\ responses = <<>>

\* lines 670-675, one trading day: its events join all_gappers
ProcessTradingDay ==
    /\ pc = "days"
    /\ \E daily_gappers \in DailyGappers(get_trading_days(now)[day]) :
          /\ Len(all_gappers) + Len(daily_gappers) <= MaxWindowEvents
          /\ all_gappers' = all_gappers \o daily_gappers
    /\ day' = day + 1
    /\ pc' = IF day = Len(get_trading_days(now)) THEN "aggregate" ELSE "days"
    /\ UNCHANGED <<normVars, current_data, prev_closes, initial_candidates, idx,
                   qualified_gappers, aggVars, periodVars, prevVars>>

\* line 680
CalculateAllPeriodAverages ==
    /\ pc = "aggregate"
    /\ monthly_averages' = monthly_averages_of(all_gappers, now)
    /\ weekly_averages' = weekly_averages_of(all_gappers, now)
    /\ daily_averages' = daily_averages_of(all_gappers)
    /\ pc' = "aggregated"
    /\ UNCHANGED <<normVars, dateVars, aggVars, now, prevVars>>

NextPeriods == ProcessTradingDay \/ CalculateAllPeriodAverages

SpecPeriods == InitPeriods /\ [][NextPeriods]_vars

InitDaily ==
    /\ pc = "days"
    /\ intraday_data = <<>>
    /\ prev_close = 0
    /\ gapper_data = None
    /\ day = 1
    /\ current_data = <<>>
    /\ prev_closes = <<>>
    /\ initial_candidates = <<>>
    /\ idx = 1
    /\ qualified_gappers = <<>>
    /\ all_gappers = <<>>
    /\ gappers = <<>>
    /\ period_avg = None
    /\ now = <<2025, 3, 3>>
    /\ monthly_averages = <<>>
    /\ weekly_averages = <<>>
    /\ daily_averages = <<>>
    /\ date = <<2024, 3, 4>>
    /\ previous_day = None
    /\ attempts = 0
    /\ responses = <<>>

\* the days of all_gappers whose events are not exactly one event with a curve
odd_days(gapper_list, days) ==
    { k \in 1..Len(days) :
         SelectSeq(gapper_list, LAMBDA g : g.date = strftime_ymd(days[k]))
            # <<event_of(CurveFeed, days[k])>> }

\* lines 670-675, one of the recent trading days, with at most one gapper a day
ProcessRecentDay ==
    /\ pc = "days"
    /\ LET days == recent_trading_days(now)
       IN  /\ \E daily_gappers \in DailyGappers(days[day]) :
                /\ Len(daily_gappers) <= 1
                /\ all_gappers' = all_gappers \o daily_gappers
                /\ Cardinality(odd_days(all_gappers', SubSeq(days, 1, day))) <= MaxOddDays
           /\ pc' = IF day = Len(days) THEN "aggregate" ELSE "days"
    /\ day' = day + 1
    /\ UNCHANGED <<normVars, current_data, prev_closes, initial_candidates, idx,
                   qualified_gappers, aggVars, periodVars, prevVars>>

NextDaily == ProcessRecentDay \/ CalculateAllPeriodAverages

SpecDaily == InitDaily /\ [][NextDaily]_vars

(***************************************************************************)
(* get_previous_trading_day, lines 50-75, and its use by                   *)
(* fetch_candidates_for_date, lines 285-288, within the loop of            *)
(* daily_update.                                                           *)
(***************************************************************************)
MaxAttempts == 10             \* max_attempts = 10

\* the dates daily_update passes to fetch_candidates_for_date
RunDates == << <<2024, 3, 1>>, <<2024, 3, 4>> >>

\* what a query of the grouped endpoint may do: return results, return none,
\* or raise
Answers == {"results", "empty", "raises"}

\* the loop running while the count is at most max_attempts
more_attempts_inclusive(count) == count <= MaxAttempts

\* line 59: for _ in range(max_attempts)
more_attempts(count) == count < MaxAttempts

InitPrev ==
    /\ pc = "call"
    /\ intraday_data = <<>>
    /\ prev_close = 0
    /\ gapper_data = None
    /\ day = 1
    /\ current_data = <<>>
    /\ prev_closes = <<>>
    /\ initial_candidates = <<>>
    /\ idx = 1
    /\ qualified_gappers = <<>>
    /\ all_gappers = <<>>
    /\ gappers = <<>>
    /\ period_avg = None
    /\ now = <<2024, 3, 4>>
    /\ monthly_averages = <<>>
    /\ weekly_averages = <<>>
    /\ daily_averages = <<>>
    /\ date = RunDates[1]
    /\ previous_day = None
    /\ attempts = 0
    /\ responses = <<>>

\* lines 285 and 56-57: the call, previous_day = date - timedelta(days=1)
GetPreviousTradingDay ==
    /\ pc = "call"
    /\ previous_day' = minus_days(date, 1)
    /\ attempts' = 0
    /\ responses' = <<>>
    /\ pc' = "query"
    /\ UNCHANGED <<normVars, dateVars, aggVars, periodVars, date>>

\* lines 59-73, one iteration: query previous_day; return it when the answer
\* has results, else step one day back
QueryPreviousDay ==
    /\ pc = "query"
    /\ more_attempts(attempts)
    /\ \E answer \in Answers :
          /\ responses' = Append(responses, [day |-> previous_day, answer |-> answer])
          /\ IF answer = "results"
             THEN pc' = "found" /\ UNCHANGED previous_day
             ELSE pc' = "query" /\ previous_day' = minus_days(previous_day, 1)
    /\ attempts' = attempts + 1
    /\ UNCHANGED <<normVars, dateVars, aggVars, periodVars, date>>

\* line 75: the loop ran out, return None
ReturnNone ==
    /\ pc = "query"
    /\ ~more_attempts(attempts)
    /\ previous_day' = None
    /\ pc' = "not_found"
    /\ UNCHANGED <<normVars, dateVars, aggVars, periodVars, date, attempts, responses>>

\* lines 286-288: no previous trading day, the date yields []
ReturnEmptyList ==
    /\ pc = "not_found"
    /\ qualified_gappers' = <<>>
    /\ pc' = "return"
    /\ UNCHANGED <<normVars, day, current_data, prev_closes, initial_candidates, idx,
                   all_gappers, aggVars, periodVars, prevVars>>

\* lines 290-304: a previous trading day was found, the date goes on to the
\* grouped requests (FetchGrouped and the actions after it)
FetchPreviousCloses ==
    /\ pc = "found"
    /\ pc' = "date"
    /\ UNCHANGED <<normVars, dateVars, aggVars, periodVars, prevVars>>

\* lines 670-675: the date returned [], the loop takes the next date; the
\* locals of the call that returned are gone
NextRunDate ==
    /\ pc = "return"
    /\ day < Len(RunDates)
    /\ day' = day + 1
    /\ date' = RunDates[day + 1]
    /\ previous_day' = None
    /\ attempts' = 0
    /\ responses' = <<>>
    /\ pc' = "call"
    /\ UNCHANGED <<normVars, current_data, prev_closes, initial_candidates, idx,
                   qualified_gappers, all_gappers, aggVars, periodVars>>

NextPrev ==
    \/ GetPreviousTradingDay
    \/ QueryPreviousDay
    \/ ReturnNone
    \/ ReturnEmptyList
    \/ FetchPreviousCloses
    \/ NextRunDate

SpecPrev == InitPrev /\ [][NextPrev]_vars

(***************************************************************************)
(* Claims about process_gapper_intraday, checked under SpecNorm.           *)
(***************************************************************************)
Returned == pc = "done" /\ gapper_data # None

Buckets == DOMAIN gapper_data.times_normalized

\* the 5-minute rows the event was built from (open, high, low, close per bucket)
EventRows == resample(market_hours(intraday_data))

Near(a, b) == RLt(RAbs(RSub(a, b)), R(1))

\* C1: in every returned event, a bucket whose high_pct is within 1.0 of the
\* session's high_of_day_pct has price_pct equal to its high_pct, and when
\* high_of_day_pct > 0 the maximum of prices_normalized is at least
\* 0.9 * high_of_day_pct.
C1_HighReached ==
    Returned =>
        /\ \A k \in Buckets :
              Near(gapper_data.highs_normalized[k], gapper_data.high_of_day_pct)
                => gapper_data.prices_normalized[k] = gapper_data.highs_normalized[k]
        /\ RLt(R(0), gapper_data.high_of_day_pct)
              => RLe(RMul(Frac(9, 10), gapper_data.high_of_day_pct),
                     RMaxSeq(gapper_data.prices_normalized))

\* C1 witness: an event with a positive day high whose curve has a bucket that
\* is near the day high without attaining it, and that bucket also holds the
\* day's low
C1_Witness ==
    /\ Returned
    /\ RLt(R(0), gapper_data.high_of_day_pct)
    /\ \E k \in Buckets :
          /\ Near(gapper_data.highs_normalized[k], gapper_data.high_of_day_pct)
          /\ gapper_data.highs_normalized[k] # gapper_data.high_of_day_pct
          /\ gapper_data.lows_normalized[k] = gapper_data.low_of_day_pct

\* C2: in every returned event with low_of_day_pct < 0 the minimum of
\* prices_normalized is at most 0.9 * low_of_day_pct (the curve reaches the
\* session low).
C2_LowReached ==
    (Returned /\ RLt(gapper_data.low_of_day_pct, R(0)))
        => RLe(RMinSeq(gapper_data.prices_normalized),
               RMul(Frac(9, 10), gapper_data.low_of_day_pct))

\* the ordered rule list of the price selection: <<condition, admissible values>>
RuleList(h, l, c, dh, dl) ==
    LET bigger == IF RLt(RAbs(h), RAbs(l)) THEN {l}
                  ELSE IF RLt(RAbs(l), RAbs(h)) THEN {h} ELSE {h, l}
        blend20 == 14 * c[1] * h[2] * l[2] + 3 * (h[1] * l[2] + l[1] * h[2]) * c[2]
    IN  << <<Near(h, dh), {h}>>,
           <<Near(l, dl), {l}>>,
           <<RLt(RAbs(l), RAbs(h)) /\ RLt(R(3), RAbs(h)), {h}>>,
           <<RLt(R(3), RAbs(l)), {l}>>,
           <<RLt(R(5), RAbs(RSub(h, l))), bigger>>,
           <<TRUE, {Frac(blend20, 20 * c[2] * h[2] * l[2])}>> >>

FirstMatch(rules) == CHOOSE i \in 1..Len(rules) :
                        rules[i][1] /\ \A j \in 1..(i - 1) : ~rules[j][1]

\* C3: in every returned event, each bucket's price_pct is the value the
\* six-rule ordered precedence gives for the bucket's high, low and close
\* percentages (first matching rule wins).
C3_RulePrecedence ==
    Returned =>
        \A k \in Buckets :
            LET day_open == gapper_data.open
                rules == RuleList(pct_from_open(EventRows[k].h, day_open),
                                  pct_from_open(EventRows[k].l, day_open),
                                  pct_from_open(EventRows[k].c, day_open),
                                  gapper_data.high_of_day_pct,
                                  gapper_data.low_of_day_pct)
            IN  gapper_data.prices_normalized[k] \in rules[FirstMatch(rules)][2]

\* the rule that decides bucket k of the returned event
RuleOf(k) ==
    LET day_open == gapper_data.open
    IN  FirstMatch(RuleList(pct_from_open(EventRows[k].h, day_open),
                            pct_from_open(EventRows[k].l, day_open),
                            pct_from_open(EventRows[k].c, day_open),
                            gapper_data.high_of_day_pct,
                            gapper_data.low_of_day_pct))

\* C3 witness: an event whose buckets are decided by the volatility rule (5)
\* and by the blend rule (6) with a non-zero blend
C3_Witness ==
    /\ Returned
    /\ \E k \in Buckets : RuleOf(k) = 5
    /\ \E k \in Buckets : RuleOf(k) = 6 /\ gapper_data.prices_normalized[k] # R(0)
                          /\ gapper_data.prices_normalized[k] # gapper_data.highs_normalized[k]

\* C4 as stated: times_normalized is non-decreasing, within [0, 1], and its
\* first value is exactly 0.
C4_FirstIsZero ==
    Returned =>
        /\ \A k \in Buckets : RLe(R(0), gapper_data.times_normalized[k])
                              /\ RLe(gapper_data.times_normalized[k], R(1))
        /\ \A j, k \in Buckets :
              j < k => RLe(gapper_data.times_normalized[j], gapper_data.times_normalized[k])
        /\ gapper_data.times_normalized[1] = R(0)

\* C4 amended: times_normalized is strictly increasing, within [0, 1], and its
\* first value is 0 exactly when the earliest session bar lies in the
\* 09:30-09:34 bucket.
C4_TimesOrdered ==
    Returned =>
        /\ \A k \in Buckets : RLe(R(0), gapper_data.times_normalized[k])
                              /\ RLe(gapper_data.times_normalized[k], R(1))
        /\ \A j, k \in Buckets :
              j < k => RLt(gapper_data.times_normalized[j], gapper_data.times_normalized[k])
        /\ (gapper_data.times_normalized[1] = R(0))
              <=> (market_hours(intraday_data)[1].t < MarketOpenMin + ResampleMin)

\* C4 witness: a curve of two buckets that starts after 09:30 and ends at 16:00
C4_Witness ==
    /\ Returned
    /\ Len(gapper_data.times_normalized) = 2
    /\ gapper_data.times_normalized[1] # R(0)
    /\ gapper_data.times_normalized[2] = R(1)

(***************************************************************************)
(* Claims about fetch_candidates_for_date and daily_update, checked under  *)
(* Spec.                                                                   *)
(***************************************************************************)
SeqToSet(q) == { q[i] : i \in 1..Len(q) }

\* the candidates of the date whose loop iteration (lines 333-355) has run
Processed == { initial_candidates[j].ticker : j \in 1..(idx - 1) }

\* the stock is of a listed symbol, has a positive previous close and open
WellFormed(stock) ==
    /\ filter_ticker_symbols(stock.T)
    /\ HasPrevClose(prev_closes, stock.T)
    /\ PrevCloseOf(prev_closes, stock.T) > 0
    /\ stock.o > 0

\* the stock has a zero (or negative) previous close or open
Malformed(stock) ==
    \/ stock.o <= 0
    \/ HasPrevClose(prev_closes, stock.T) /\ PrevCloseOf(prev_closes, stock.T) <= 0

\* C5: no event with gap_percentage below 50 is in the qualified list or among
\* the events handed to the period aggregates, and a ticker whose gap is
\* exactly 50% and that meets the price and volume floors is included: it is
\* processed, and its call yields an event that joins the qualified list.
C5_ThresholdInclusive ==
    /\ \A e \in SeqToSet(qualified_gappers) \cup SeqToSet(all_gappers) :
          RLe(R(MinGapPct), e.gap_percentage)
    /\ (/\ pc \in {"candidates", "return"}
        /\ market_hours(intraday_data) # <<>>
        /\ (market_hours(intraday_data)[1].o - prev_close) * 100 = MinGapPct * prev_close
        /\ pre_market_volume_of(intraday_data) >= MinPreMarketVolume)
          => gapper_data # None /\ gapper_data \in SeqToSet(qualified_gappers)
    /\ pc = "return" =>
          \A i \in 1..Len(current_data) :
              (/\ WellFormed(current_data[i])
               /\ (current_data[i].o - PrevCloseOf(prev_closes, current_data[i].T)) * 100
                     = MinGapPct * PrevCloseOf(prev_closes, current_data[i].T)
               /\ current_data[i].o >= MinOpenCents)
                 => current_data[i].T \in Processed

\* C6: every event of the qualified list has, on its own recorded fields,
\* gap_percentage >= 50, open >= 0.30 and pre_market_volume >= 1,000,000.
C6_QualifiedOnOwnFields ==
    \A e \in SeqToSet(qualified_gappers) :
        /\ RLe(R(MinGapPct), e.gap_percentage)
        /\ e.open >= MinOpenCents
        /\ e.pre_market_volume >= MinPreMarketVolume

\* the reference split ratios, as <<numerator, denominator>>
SplitRatios == { <<2, 1>>, <<3, 1>>, <<4, 1>>, <<5, 1>>, <<10, 1>>,
                 <<1, 2>>, <<1, 3>>, <<1, 4>>, <<1, 5>>, <<1, 10>> }

\* open / previous_close is within 5% relative tolerance of a split ratio
SplitLike(opening, previous_close) ==
    \E r \in SplitRatios :
        IAbs(opening * r[2] - r[1] * previous_close) * 20 <= r[1] * previous_close

\* C7: a candidate whose open/previous_close ratio is within 5% of a reference
\* split ratio never becomes a qualified event.
C7_SplitRejected ==
    \A j \in 1..(idx - 1) :
        (j <= Len(initial_candidates)
         /\ SplitLike(initial_candidates[j].opening, initial_candidates[j].previous_close))
          => \A e \in SeqToSet(qualified_gappers) : e.ticker # initial_candidates[j].ticker

\* C8: when the date's results hold a ticker with a zero (or negative) previous
\* close or open, every other, well-formed ticker of the date that passes the
\* first screen is still processed.
C8_MalformedIsolated ==
    (pc = "return" /\ \E i \in 1..Len(current_data) : Malformed(current_data[i]))
        => \A i \in 1..Len(current_data) :
              (/\ WellFormed(current_data[i])
               /\ passes_initial_screen(current_data[i].o,
                                        PrevCloseOf(prev_closes, current_data[i].T)))
                 => current_data[i].T \in Processed

(***************************************************************************)
(* Claims about calculate_period_average, checked under SpecAgg.           *)
(***************************************************************************)
Averaged == pc = "averaged" /\ period_avg # None

\* the events of the period whose curve has at least two points
Contributing == SelectSeq(gappers, LAMBDA e : Len(e.times_normalized) > 1)

\* the piecewise-linear curve through the knots (xp, fp) at x: the weighted
\* mean of the two knots that bracket x, the nearest end value outside them
Lerp(x, xp, fp) ==
    IF \E j \in 1..(Len(xp) - 1) : RLe(xp[j], x) /\ RLe(x, xp[j + 1])
    THEN LET j == CHOOSE k \in 1..(Len(xp) - 1) : RLe(xp[k], x) /\ RLe(x, xp[k + 1])
             w == RDiv(RSub(x, xp[j]), RSub(xp[j + 1], xp[j]))
         IN  RAdd(RMul(RSub(R(1), w), fp[j]), RMul(w, fp[j + 1]))
    ELSE IF RLt(x, xp[1]) THEN fp[1] ELSE fp[Len(fp)]

\* value is the 2-decimal rounding of total / count
IsRoundedMean(value, total, count) ==
    /\ 100 % value[2] = 0
    /\ RLe(RAbs(RSub(RMul(value, R(count)), total)), Frac(count, 200))

CurveIsMean(avg, field) ==
    \A i \in 1..GridSize :
        IsRoundedMean(avg[i],
            RSumSeq([k \in 1..Len(Contributing) |->
                Lerp(Frac(i - 1, GridSize - 1), Contributing[k].times_normalized,
                     Contributing[k][field])]),
            Len(Contributing))

\* C9: at every grid point, avg_prices, avg_highs and avg_lows are the
\* arithmetic mean (to the two decimals stored) over the contributing events
\* of each event's piecewise-linearly interpolated curve at that point.
C9_MeanOfInterpolated ==
    Averaged =>
        /\ Len(period_avg.avg_prices) = GridSize
        /\ CurveIsMean(period_avg.avg_prices, "prices_normalized")
        /\ CurveIsMean(period_avg.avg_highs, "highs_normalized")
        /\ CurveIsMean(period_avg.avg_lows, "lows_normalized")

\* C9 witness: the two events with knots [0, 0.5, 1] and price_pct [0, 10, -5]
\* and [0, -10, 5]; their mean curve is 0 at every grid point
C9_Witness ==
    /\ Averaged
    /\ Len(gappers) = 2
    /\ gappers[1].times_normalized = <<R(0), Frac(1, 2), R(1)>>
    /\ gappers[2].times_normalized = <<R(0), Frac(1, 2), R(1)>>
    /\ gappers[1].prices_normalized = <<R(0), R(10), R(-5)>>
    /\ gappers[2].prices_normalized = <<R(0), R(-10), R(5)>>
    /\ \A i \in 1..GridSize : period_avg.avg_prices[i] = R(0)

\* C10 as stated: calculate_period_average returns nothing only when the set
\* of events is empty.
C10_NothingOnlyWhenEmpty ==
    pc = "averaged" => (period_avg = None <=> gappers = <<>>)

\* C10 amended: calculate_period_average returns nothing exactly when no event
\* of the set has a curve of at least two points (the empty set included).
C10_NothingIffNoCurve ==
    pc = "averaged" => (period_avg = None <=> Contributing = <<>>)

\* C10 witness: a non-empty set of single-point events, for which nothing is
\* returned
C10_Witness ==
    /\ pc = "averaged"
    /\ gappers # <<>>
    /\ \A k \in 1..Len(gappers) : Len(gappers[k].times_normalized) = 1
    /\ period_avg = None

\* C11: an aggregate counts every event of the period, with or without a
\* curve: gapper_count is the number of events, the volumes are summed over
\* all of them, and each scalar mean (gap%, open-to-close%, HOD%, LOD% and the
\* HOD time fraction) is the mean over all gapper_count events.
C11_ScalarsOverAllEvents ==
    Averaged =>
        LET n == Len(gappers)
            all(field) == RSumSeq([k \in 1..n |-> gappers[k][field]])
        IN  /\ period_avg.gapper_count = n
            /\ period_avg.total_volume = SumSeq([k \in 1..n |-> gappers[k].total_volume])
            /\ period_avg.total_dollar_volume
                  = SumSeq([k \in 1..n |-> gappers[k].dollar_volume])
            /\ IsRoundedMean(period_avg.avg_gap_percentage, all("gap_percentage"), n)
            /\ IsRoundedMean(period_avg.avg_open_to_close, all("open_to_close_change"), n)
            /\ IsRoundedMean(period_avg.avg_high_of_day_pct, all("high_of_day_pct"), n)
            /\ IsRoundedMean(period_avg.avg_low_of_day_pct, all("low_of_day_pct"), n)
            /\ RMul(period_avg.avg_hod_time, R(n)) = all("hod_time_percentage")

(***************************************************************************)
(* Further claims about process_gapper_intraday, checked under SpecNorm.   *)
(***************************************************************************)
\* C13: for every returned event, interpolating (times_normalized,
\* prices_normalized) at each of its own time points gives back the price of
\* that point.
C13_InterpolationRoundTrip ==
    Returned =>
        \A k \in Buckets :
            np_interp(gapper_data.times_normalized[k], gapper_data.times_normalized,
                      gapper_data.prices_normalized)
                = gapper_data.prices_normalized[k]

\* C13 witness: a curve of three points whose middle point is off the chord
\* from the first to the last
C13_Witness ==
    /\ Returned
    /\ Len(gapper_data.times_normalized) = 3
    /\ gapper_data.prices_normalized[2]
          # Lerp(gapper_data.times_normalized[2],
                 <<gapper_data.times_normalized[1], gapper_data.times_normalized[3]>>,
                 <<gapper_data.prices_normalized[1], gapper_data.prices_normalized[3]>>)

\* the positions, in the response, of the session bars (09:30 <= t <= 16:00)
SessionBars == { i \in DOMAIN intraday_data :
                    intraday_data[i].t >= 570 /\ intraday_data[i].t <= 960 }

\* the positions of the session bars whose high is the highest session high
HighBars == { i \in SessionBars :
                 \A j \in SessionBars : intraday_data[j].h <= intraday_data[i].h }

\* C14: hod_time is the time of the earliest session bar whose high is the
\* session high, hod_time_percentage is (t - 09:30) / (16:00 - 09:30) of that
\* time and lies in [0, 1]: 0 for 09:30 and 1 for 16:00.
C14_HodTimeOfFirstHigh ==
    Returned =>
        LET t == intraday_data[SetMin(HighBars)].t
        IN  /\ \A i \in HighBars : t <= intraday_data[i].t
            /\ gapper_data.hod_time = t
            /\ gapper_data.hod_time_percentage = Frac(t - 570, 390)
            /\ RLe(R(0), gapper_data.hod_time_percentage)
            /\ RLe(gapper_data.hod_time_percentage, R(1))
            /\ (t = 570 => gapper_data.hod_time_percentage = R(0))
            /\ (t = 960 => gapper_data.hod_time_percentage = R(1))

\* C14 witness: two session bars share the session high and the earlier one is
\* not the 09:30 bar
C14_Witness ==
    /\ Returned
    /\ Cardinality(HighBars) >= 2
    /\ gapper_data.hod_time > 570
    /\ \E i \in HighBars : intraday_data[i].t > gapper_data.hod_time

\* the positions, in the response, of the bars before 09:30
PreMarketBars == { i \in DOMAIN intraday_data : intraday_data[i].t < 570 }

RECURSIVE VolumeOf(_)
\* the summed volume of the bars at the positions S
VolumeOf(S) ==
    IF S = {} THEN 0
    ELSE LET i == CHOOSE j \in S : TRUE IN intraday_data[i].v + VolumeOf(S \ {i})

\* the 5-minute bucket starts that hold a session bar
SessionBuckets == { 5 * (intraday_data[i].t \div 5) : i \in SessionBars }

\* C15: pre_market_volume is the summed volume of exactly the bars before
\* 09:30; open, high, low, close and total_volume come from exactly the bars
\* with 09:30 <= t <= 16:00, and the curve has one point per 5-minute bucket
\* that holds such a bar, so bars before 09:30 or after 16:00 change neither
\* the extrema nor the curve; no event is returned when there is no session
\* bar or the pre-market volume is below 1,000,000.
C15_MarketHoursPartition ==
    pc = "done" =>
        /\ (SessionBars = {} \/ VolumeOf(PreMarketBars) < 1000000) => gapper_data = None
        /\ gapper_data # None =>
              /\ gapper_data.pre_market_volume = VolumeOf(PreMarketBars)
              /\ gapper_data.total_volume = VolumeOf(SessionBars)
              /\ gapper_data.open = intraday_data[SetMin(SessionBars)].o
              /\ gapper_data.close = intraday_data[SetMax(SessionBars)].c
              /\ gapper_data.high = SetMax({intraday_data[i].h : i \in SessionBars})
              /\ gapper_data.low = SetMin({intraday_data[i].l : i \in SessionBars})
              /\ Len(gapper_data.times_normalized) = Cardinality(SessionBuckets)
              /\ \A k \in Buckets :
                    LET s == SortedSeq(SessionBuckets)[k]
                        in_bucket == { i \in SessionBars : 5 * (intraday_data[i].t \div 5) = s }
                    IN  /\ gapper_data.times_normalized[k] = Frac(s - 570, 390)
                        /\ gapper_data.highs_normalized[k]
                              = pct_from_open(SetMax({intraday_data[i].h : i \in in_bucket}),
                                              gapper_data.open)
                        /\ gapper_data.lows_normalized[k]
                              = pct_from_open(SetMin({intraday_data[i].l : i \in in_bucket}),
                                              gapper_data.open)

\* C15 witness: a returned event whose response also holds a bar after 16:00
\* with a high above the session high and a pre-market bar with a low below
\* the session low
C15_Witness ==
    /\ Returned
    /\ \E i \in DOMAIN intraday_data :
          intraday_data[i].t > 960 /\ intraday_data[i].h > gapper_data.high
    /\ \E i \in PreMarketBars : intraday_data[i].l < gapper_data.low

(***************************************************************************)
(* Further claims about calculate_period_average, checked under SpecAgg.   *)
(***************************************************************************)
\* minutes since midnight of a label <<hour, minute>>
LabelMinutes(label) == 60 * label[1] + label[2]

\* C16: every aggregate has 78 time_labels; the first is 09:30, the last is
\* 16:00 and each label is exactly 5 minutes after the one before it.
C16_LabelsFiveMinutesApart ==
    Averaged =>
        /\ Len(period_avg.time_labels) = 78
        /\ period_avg.time_labels[1] = <<9, 30>>
        /\ period_avg.time_labels[78] = <<16, 0>>
        /\ \A i \in 1..77 :
              LabelMinutes(period_avg.time_labels[i + 1])
                 = LabelMinutes(period_avg.time_labels[i]) + 5

(***************************************************************************)
(* Claims about calculate_all_period_averages, checked under SpecPeriods   *)
(* and SpecDaily.                                                          *)
(***************************************************************************)
Aggregated == pc = "aggregated"

\* an event that calculate_period_average can aggregate: its curve has two or
\* more points
Aggregatable(g) == Len(g.times_normalized) > 1

\* the calendar dates <<year, month, day>> of the aggregatable events
AggregatableDates ==
    { strptime_ymd(all_gappers[k].date) :
         k \in { j \in 1..Len(all_gappers) : Aggregatable(all_gappers[j]) } }

\* how many calendar months the date lies before the current month
MonthsBefore(d) == (12 * now[1] + now[2]) - (12 * d[1] + d[2])

\* C12: the monthly output has an entry for exactly the calendar months, among
\* the current month and the 11 months before it, that hold at least one
\* aggregatable event; no month outside that window and no month without
\* events has one.
C12_TrailingTwelveMonths ==
    Aggregated =>
        DOMAIN monthly_averages
            = { <<d[1], d[2]>> : d \in { e \in AggregatableDates : MonthsBefore(e) \in 0..11 } }

\* the ordinal of the Monday of the date's week
MondayOf(d) == ymd2ord(d) - ((ymd2ord(d) + 6) % 7)

\* how many weeks the date's week lies before the current week
WeeksBefore(d) == (MondayOf(now) - MondayOf(d)) \div 7

\* ISO 8601: a week belongs to the year that holds its Thursday, and its
\* number counts the Thursdays of that year up to it
IsoWeekKey(d) ==
    LET thursday == MondayOf(d) + 3
        year == ord2ymd(thursday)[1]
    IN  <<year, (thursday - ymd2ord(<<year, 1, 1>>)) \div 7 + 1>>

\* C18: the weekly output has an entry for exactly the ISO weeks, among the
\* current ISO week and the 11 weeks before it, that hold at least one
\* aggregatable event; the entry is keyed by the ISO year and ISO week of the
\* event dates and is never an empty record.
C18_TrailingTwelveWeeks ==
    Aggregated =>
        /\ DOMAIN weekly_averages
              = { IsoWeekKey(d) : d \in { e \in AggregatableDates : WeeksBefore(e) \in 0..11 } }
        /\ \A key \in DOMAIN weekly_averages :
              /\ weekly_averages[key].year = key[1]
              /\ weekly_averages[key].week = key[2]
              /\ weekly_averages[key].gapper_count
                    = Cardinality({ k \in 1..Len(all_gappers) :
                          IsoWeekKey(strptime_ymd(all_gappers[k].date)) = key })
              /\ weekly_averages[key].gapper_count >= 1

\* C18 witness: on 2025-01-02 an event dated 2024-12-30 is in the entry of
\* week 1 of 2025, and an aggregatable event 12 weeks back has no entry
C18_Witness ==
    /\ Aggregated
    /\ now = <<2025, 1, 2>>
    /\ <<2024, 12, 30>> \in AggregatableDates
    /\ <<2025, 1>> \in DOMAIN weekly_averages
    /\ \E d \in AggregatableDates :
          WeeksBefore(d) = 12 /\ IsoWeekKey(d) \notin DOMAIN weekly_averages

\* the date strings that have at least one event
EventDates == { all_gappers[k].date : k \in 1..Len(all_gappers) }

\* the 12 most recent of them
RecentEventDates ==
    { d \in EventDates :
         Cardinality({ e \in EventDates : ymd2ord(strptime_ymd(e)) > ymd2ord(strptime_ymd(d)) })
            < 12 }

HasAggregatable(date_str) ==
    \E k \in 1..Len(all_gappers) :
        all_gappers[k].date = date_str /\ Aggregatable(all_gappers[k])

\* C17 as stated: the daily output has at most 12 entries, all among the 12
\* most recent dates with an event; when at least 12 dates have an
\* aggregatable event it has exactly 12 entries; and no date appears while a
\* more recent date with an aggregatable event is missing.
C17_ExactlyTwelve ==
    Aggregated =>
        /\ Cardinality(DOMAIN daily_averages) <= 12
        /\ DOMAIN daily_averages \subseteq RecentEventDates
        /\ Cardinality({ d \in EventDates : HasAggregatable(d) }) >= 12
              => Cardinality(DOMAIN daily_averages) = 12
        /\ \A d \in DOMAIN daily_averages :
              \A e \in EventDates :
                 (HasAggregatable(e) /\ ymd2ord(strptime_ymd(e)) > ymd2ord(strptime_ymd(d)))
                    => e \in DOMAIN daily_averages

\* C17 amended: the daily output has at most 12 entries: one for each of the 12
\* most recent dates with an event that has an aggregatable event (so exactly
\* 12 when each of those 12 dates has one); no date appears while a more
\* recent date with an aggregatable event is missing.
C17_RecentDatesWithCurve ==
    Aggregated =>
        /\ Cardinality(DOMAIN daily_averages) <= 12
        /\ DOMAIN daily_averages = { d \in RecentEventDates : HasAggregatable(d) }
        /\ (Cardinality(RecentEventDates) = 12 /\ \A d \in RecentEventDates : HasAggregatable(d))
              => Cardinality(DOMAIN daily_averages) = 12
        /\ \A d \in DOMAIN daily_averages :
              /\ daily_averages[d].date = d
              /\ \A e \in EventDates :
                    (HasAggregatable(e) /\ ymd2ord(strptime_ymd(e)) > ymd2ord(strptime_ymd(d)))
                       => e \in DOMAIN daily_averages

\* C17 witness: 13 dates have events, 12 of them an aggregatable one; the
\* oldest date is cut and one of the 12 most recent has no curve, so 11
\* entries are produced
C17_Witness ==
    /\ Aggregated
    /\ Cardinality(EventDates) = 13
    /\ Cardinality({ d \in EventDates : HasAggregatable(d) }) = 12
    /\ \E d \in EventDates : HasAggregatable(d) /\ d \notin RecentEventDates
    /\ Cardinality(DOMAIN daily_averages) = 11

(***************************************************************************)
(* Claim about get_previous_trading_day, checked under SpecPrev.           *)
(***************************************************************************)
\* the day k calendar days before the date argument
DaysBefore(k) == ord2ymd(ymd2ord(date) - k)

\* C19: get_previous_trading_day makes at most 10 queries, for the days 1, 2,
\* ... before the date, and a query that raises counts as a day without
\* data; it returns the first of these days whose query had results, which is
\* the latest day before the date among the 10 preceding days with results,
\* and None when none of the 10 has; in that case the date yields an empty
\* list and all_gappers is untouched.
C19_PreviousTradingDay ==
    /\ Len(responses) <= 10
    /\ attempts <= 10
    /\ \A k \in 1..Len(responses) :
          /\ responses[k].day = DaysBefore(k)
          /\ responses[k].answer = "results" => k = Len(responses)
    /\ pc \in {"found", "date"} =>
          /\ responses # <<>>
          /\ responses[Len(responses)].answer = "results"
          /\ previous_day = DaysBefore(Len(responses))
          /\ ymd2ord(previous_day) < ymd2ord(date)
          /\ ymd2ord(previous_day) >= ymd2ord(date) - 10
    /\ pc \in {"not_found", "return"} =>
          /\ previous_day = None
          /\ Len(responses) = 10
          /\ \A k \in 1..10 : responses[k].answer \in {"empty", "raises"}
    /\ pc = "return" => qualified_gappers = <<>> /\ all_gappers = <<>>

\* C19 witness: the first date found no previous day and the run went on; for
\* the second date the tenth query is the first with results, after queries
\* that raised and queries that returned nothing
C19_Witness ==
    /\ day = 2
    /\ pc = "found"
    /\ Len(responses) = 10
    /\ previous_day = <<2024, 2, 23>>
    /\ \E k \in 1..9 : responses[k].answer = "raises"
    /\ \E k \in 1..9 : responses[k].answer = "empty"

====
